---- MODULE Spec2Model ----
(***************************************************************************)
(* A model of hdx.scraper.portwatch.pipeline.Pipeline: the five paginated  *)
(* fetches (get_ports, get_chokepoints, get_daily_chokepoints,             *)
(* get_daily_ports, get_disruptions), the normalisation of rows (ObjectId  *)
(* removal, epoch-millisecond to UTC date-time conversion, date sort), the *)
(* dataset generators and get_date_range.                                  *)
(*                                                                         *)
(* A JSON value is a tagged value [t, v]: t is "int", "datetime" or        *)
(* "null".  A row (a Python dict) is a function from its keys to tagged    *)
(* values; a key the dict does not hold is not in the function's DOMAIN.   *)
(***************************************************************************)
EXTENDS Integers, Sequences, FiniteSets, TLC

\* ------------------------------------------------------------------ bounds

\* The most requests one fetch issues in the model: the endpoint's answer to
\* the last of them is a short page (the source is finite).
MaxPages == 3

\* The longest row list get_date_range is applied to on its own.
MaxRows == 2

\* The longest feature list get_port_countries is applied to.
MaxFeatures == 3

\* ------------------------------------------------------- program constants

\* limit = 1000, the page size of every fetch.
limit == 1000

\* The divisor of row["date"] / 1000: epoch milliseconds to seconds.
MsPerSecond == 1000

\* ------------------------------------------------------------------ values

NullV == [t |-> "null", v |-> 0]
IntV(n) == [t |-> "int", v |-> n]
DateTimeV(us) == [t |-> "datetime", v |-> us]

\* A Python None (the value of `x is None`).
IsNone(x) == x.t = "null"

\* dict.get(key) with the default None.
Get(row, key) == IF key \in DOMAIN row THEN row[key] ELSE NullV

\* dict.pop(key, None): the dict without the key.
Pop(row, key) == [k \in DOMAIN row \ {key} |-> row[k]]

\* row[key] = value.
SetKey(row, key, value) ==
    [k \in DOMAIN row \cup {key} |-> IF k = key THEN value ELSE row[k]]

\* The empty dict {}.
EmptyRow == [k \in {} |-> NullV]

\* A conversion that takes a value converted before as it is.
CanConvertAgain(x) == x.t \in {"int", "datetime"}

\* datetime.fromtimestamp(x / 1000, tz=timezone.utc) is defined on a number
\* only: a None or a datetime operand of `/` raises TypeError.
CanConvert(x) == x.t = "int"

\* datetime.fromtimestamp(ms / 1000, tz=timezone.utc): the UTC date-time
\* ms milliseconds after the epoch, held with microsecond resolution.
FromTimestamp(x) == DateTimeV(x.v * (1000000 \div MsPerSecond))

\* ------------------------------------------------------------- the endpoint

Functions ==
    {"get_ports", "get_chokepoints", "get_daily_chokepoints", "get_daily_ports",
     "get_disruptions"}

\* The functions that read GeoJSON features (properties and geometry); the
\* other two read plain JSON features (attributes).
GeoFunctions == {"get_ports", "get_chokepoints", "get_disruptions"}

\* The sizes of the pages the endpoint answers with: none, one record, one
\* short of a full page, a full page.  The service returns at most
\* resultRecordCount records.
PageSizes == {0, 1, limit - 1, limit}

\* The sources an endpoint may serve.  "regular": record k of the source is
\* at position k and holds every field.  "irregular": as regular, with the
\* records the service may return (no row identifier, no or null attribute
\* map, null or absent dates).  "repeating": regular records, but every page
\* is read from the start of the source, so pages repeat records.
Sources == {"regular", "irregular", "repeating"}

\* The record population of a source: 0 is regular, 1 is irregular.
ShapeOf(src) == IF src = "irregular" THEN 1 ELSE 0

\* The position before the first record of the page at offset `off`.
StartOf(src, off) == IF src = "repeating" THEN 0 ELSE off

\* Record k of the ports or chokepoints source.
PortFeature(shape, k) ==
    LET geom == IntV(k)
        full == [ObjectId |-> IntV(k), portid |-> IntV(k)]
    IN  IF shape = 0 THEN [properties |-> full, geometry |-> geom]
        ELSE CASE k % 3 = 0 -> [properties |-> NullV, geometry |-> geom]
               [] k % 3 = 1 -> [properties |-> [portid |-> IntV(k)], geometry |-> geom]
               [] OTHER     -> [geometry |-> geom]

\* Record k of the disruptions source: fromdate and todate are epoch
\* milliseconds; todate may be null, absent, later or earlier than fromdate.
DisruptionFeature(shape, k) ==
    LET geom == IntV(k)
        from == IntV(10 + (k % 3))
        base == [ObjectId |-> IntV(k), eventid |-> IntV(k), fromdate |-> from]
    IN  IF shape = 0
        THEN CASE k % 4 = 0 -> [properties |-> SetKey(base, "todate", NullV), geometry |-> geom]
               [] k % 4 = 1 -> [properties |-> base, geometry |-> geom]
               [] k % 4 = 2 -> [properties |-> SetKey(base, "todate", IntV(13 + (k % 5))), geometry |-> geom]
               [] OTHER     -> [properties |-> SetKey(base, "todate", IntV(9)), geometry |-> geom]
        ELSE CASE k % 4 = 0 -> [properties |-> SetKey(Pop(base, "ObjectId"), "todate", IntV(20)), geometry |-> geom]
               [] k % 4 = 1 -> [properties |-> SetKey(base, "todate", IntV(11)), geometry |-> geom]
               [] k % 4 = 2 -> [properties |-> SetKey(base, "fromdate", NullV), geometry |-> geom]
               [] OTHER     -> [properties |-> [ObjectId |-> IntV(k), eventid |-> IntV(k)], geometry |-> geom]

\* Record k of a daily source: date is epoch milliseconds.
DailyFeature(shape, k) ==
    LET full == [ObjectId |-> IntV(k), portid |-> IntV(k), date |-> IntV(1 + (k % 3))]
    IN  IF shape = 0 THEN [attributes |-> full]
        ELSE CASE k % 4 = 0 -> [attributes |-> SetKey(full, "date", NullV)]
               [] k % 4 = 1 -> [attributes |-> Pop(full, "ObjectId")]
               [] k % 4 = 2 -> [attributes |-> full]
               [] OTHER     -> [attributes |-> Pop(full, "date")]

SourceFeature(f, shape, k) ==
    CASE f \in {"get_ports", "get_chokepoints"} -> PortFeature(shape, k)
      [] f = "get_disruptions" -> DisruptionFeature(shape, k)
      [] OTHER -> DailyFeature(shape, k)

\* The payload of the page of n records at offset `off`.
Payload(f, src, off, n) ==
    [features |-> [i \in 1..n |-> SourceFeature(f, ShapeOf(src), StartOf(src, off) + i)]]

\* A payload without a `features` member (the service's error object).
ErrorPayload == [error |-> IntV(400)]

\* ------------------------------------------------------------------- state

VARIABLES
    pc,                \* "idle", "loop", "returned", "raised", "done"
    fn,                \* the fetch that runs or ran
    source,            \* the source its endpoint serves
    offset,            \* the local `offset`
    rows,              \* ports_rows / chokepoints_rows / all_data /
                       \* disruptions_rows: the list the fetch builds and returns
    geojson_features,  \* the local `geojson_features`, returned as the
                       \* `features` of the FeatureCollection
    requests,          \* the requests issued, in order
    served,            \* the `features` of each payload received, in order
    dataset,           \* what the generator returned: nothing yet, None, or
                       \* the Dataset (its name and time period)
    effects,           \* what the generator did, in order: "json.dump",
                       \* "get_date_range", "generate_resource_from_iterable"
    csv,               \* the iterable handed to generate_resource_from_iterable
    geojson_file,      \* the features of the collection as json.dump wrote them
    date_range_data,   \* the argument `data` of the last get_date_range call
    date_range,        \* what that call returned: <<min, max>>
    exc,               \* the exception that ended the call, "" if none
    country_code,      \* the `country_code` generate_daily_ports_dataset looked
                       \* up with add_country_location, "" before it did
    port_features,     \* the argument `features` of get_port_countries
    port_countries,    \* what get_port_countries returned
    logged             \* the records written with logger.error and
                       \* logger.warning, in order (the start of each message)

vars ==
    <<pc, fn, source, offset, rows, geojson_features, requests, served, dataset, effects,
      csv, geojson_file, date_range_data, date_range, exc, country_code, port_features,
      port_countries, logged>>

\* -------------------------------------------------------------- pagination

\* data.get("features", []).
DataFeatures(data) == IF "features" \in DOMAIN data THEN data.features ELSE <<>>

\* feature.get("properties", {}) or {}: the properties, {} when absent,
\* null or empty.
PropsOrEmpty(feature) ==
    IF "properties" \in DOMAIN feature /\ "t" \notin DOMAIN feature.properties
    THEN feature.properties
    ELSE EmptyRow

\* feature.get("attributes", {}).
AttrsOf(feature) ==
    IF "attributes" \in DOMAIN feature THEN feature.attributes ELSE EmptyRow

\* Params built once, before the loop: every request asks for offset 0.
ParamsOffsetStuck(f, off, attempt) ==
    [where |-> IF f = "get_daily_ports" THEN "ISO3='iso3'" ELSE "1=1",
     resultOffset |-> 0, resultRecordCount |-> limit, attempt |-> attempt]

\* Params with the offset advanced before the request instead of after it.
ParamsOffsetAhead(f, off, attempt) ==
    [where |-> IF f = "get_daily_ports" THEN "ISO3='iso3'" ELSE "1=1",
     resultOffset |-> off + limit, resultRecordCount |-> limit, attempt |-> attempt]

\* The params of a request; attempt 2 is the request get_daily_ports issues
\* again after a JSON decode error.
Params(f, off, attempt) ==
    [where |-> IF f = "get_daily_ports" THEN "ISO3='iso3'" ELSE "1=1",
     resultOffset |-> off, resultRecordCount |-> limit, attempt |-> attempt]

\* The payloads the endpoint may answer request number `nth`, which asks
\* for resultOffset `off`,
\* with: a page of any size, or an object without features.  The source is
\* finite: the answer to request MaxPages is not a full page.
Responses(f, off, nth) ==
    {ErrorPayload} \cup
    {Payload(f, source, off, n) :
        n \in {m \in PageSizes : nth < MaxPages \/ m < limit}}

\* What a generator returns: None, or the Dataset it built.
NotGenerated == [returned |-> "nothing yet"]
NoneDataset == [returned |-> "None"]
Dataset(name, time_period) ==
    [returned |-> "Dataset", name |-> name, time_period |-> time_period]

Init ==
    /\ pc = "idle"
    /\ source = "regular"
    /\ dataset = NotGenerated
    /\ effects = <<>>
    /\ csv = <<>>
    /\ geojson_file = <<>>
    /\ date_range_data = <<>>
    /\ date_range = <<NullV, NullV>>
    /\ fn = ""
    /\ offset = 0
    /\ rows = <<>>
    /\ geojson_features = <<>>
    /\ requests = <<>>
    /\ served = <<>>
    /\ exc = ""
    /\ country_code = ""
    /\ logged = <<>>
    /\ port_features = <<>>
    /\ port_countries = <<>>

\* The call of fetch f: its locals as lines 31-34 set them.
Begin(f) ==
    /\ pc = "idle"
    /\ pc' = "loop"
    /\ fn' = f
    /\ source' \in Sources
    /\ offset' = 0
    /\ rows' = <<>>
    /\ geojson_features' = <<>>
    /\ UNCHANGED <<requests, served, exc, dataset, effects, csv, geojson_file,
                   date_range_data, date_range, country_code, port_features,
                   port_countries, logged>>

\* What download_json raises: DownloadError on a transport failure,
\* requests' JSONDecodeError on a body that is not JSON.
DownloadFailures == {"DownloadError", "JSONDecodeError"}

\* A fetch that catches the failure and returns what it has.
RaiseReturnsPartial(e) ==
    /\ pc' = "returned"
    /\ UNCHANGED <<exc, rows, geojson_features, fn, source, offset>>

\* An exception leaves the fetch: nothing is returned.
Raise(e) ==
    /\ pc' = "raised"
    /\ exc' = e
    /\ rows' = <<>>
    /\ geojson_features' = <<>>
    /\ UNCHANGED <<fn, source, offset>>

\* props as received, ObjectId never popped.
PropsAfterNoPop(feature, strip) == PropsOrEmpty(feature)

\* props of one feature: `props.pop("ObjectId", None)` in get_ports and
\* get_chokepoints, not in get_disruptions.
PropsAfter(feature, strip) ==
    IF strip THEN Pop(PropsOrEmpty(feature), "ObjectId") ELSE PropsOrEmpty(feature)

\* A loop that skips a record whose row is in the list already.
PageRowsDeduplicated(features, strip) ==
    SelectSeq([i \in 1..Len(features) |-> PropsAfter(features[i], strip)],
              LAMBDA r : r \notin {rows[j] : j \in DOMAIN rows})

\* The rows the `for feature in features` loop appends.
PageRows(features, strip) ==
    [i \in 1..Len(features) |-> PropsAfter(features[i], strip)]

\* A loop that appends each feature as received, `feature["properties"] =
\* props` left out.
PageFeaturesAsReceived(features, strip) == features

\* The features the loop appends: feature["properties"] = props.
PageFeatures(features, strip) ==
    [i \in 1..Len(features) |->
        SetKey(features[i], "properties", PropsAfter(features[i], strip))]

\* A break test that lets a page one short of full through.
ShortPageOffByOne(features) == Len(features) < limit - 1

\* `if len(features) < limit: break`.
ShortPage(features) == Len(features) < limit

\* One iteration of the `while True` loop of a GeoJSON fetch on payload
\* `data`, to the return when the loop breaks.
GeoIteration(data, strip) ==
    LET features == DataFeatures(data)
    IN  /\ served' = Append(served, features)
        /\ exc' = exc
        /\ UNCHANGED <<fn, source>>
        /\ IF features = <<>>
           THEN /\ pc' = "returned"
                /\ UNCHANGED <<offset, rows, geojson_features>>
           ELSE /\ rows' = rows \o PageRows(features, strip)
                /\ geojson_features' = geojson_features \o PageFeatures(features, strip)
                /\ IF ShortPage(features)
                   THEN pc' = "returned" /\ offset' = offset
                   ELSE pc' = "loop" /\ offset' = offset + limit

\* A fetch generates no dataset, writes no file and computes no date range.
FetchOnly ==
    UNCHANGED <<dataset, effects, csv, geojson_file, date_range_data, date_range,
                country_code, port_features, port_countries>>

\* One request of a GeoJSON fetch and what follows it.
GeoPage(f, strip) ==
    /\ pc = "loop"
    /\ fn = f
    /\ FetchOnly
    /\ requests' = Append(requests, Params(f, offset, 1))
    /\ logged' = logged
    /\ \/ \E data \in Responses(f, Params(f, offset, 1).resultOffset, Len(served) + 1) :
              GeoIteration(data, strip)
       \/ \E e \in DownloadFailures : Raise(e) /\ UNCHANGED served

get_ports == Begin("get_ports") \/ GeoPage("get_ports", TRUE)

get_chokepoints == Begin("get_chokepoints") \/ GeoPage("get_chokepoints", TRUE)

get_disruptions == Begin("get_disruptions") \/ GeoPage("get_disruptions", FALSE)

\* ---------------------------------------------------------- daily fetches

\* A row the date conversion raises on: row["date"] is absent (KeyError) or
\* is not a number (TypeError).
DailyBad(row) == "date" \notin DOMAIN row \/ ~CanConvert(row["date"])

\* A loop body that pops ObjectId and leaves the date as received.
DailyRowNotConverted(row) == Pop(row, "ObjectId")

\* The body of `for row in all_data`: the date converted, ObjectId popped.
DailyRow(row) == Pop(SetKey(row, "date", FromTimestamp(row["date"])), "ObjectId")

Max(S) == CHOOSE x \in S : \A y \in S : y <= x

\* sorted(all_data, key=lambda x: x["date"], reverse=True): a stable sort,
\* latest date first; rows of one date keep their order.
RECURSIVE SortedFrom(_, _)
SortedFrom(all_data, dates) ==
    IF dates = {} THEN <<>>
    ELSE LET d == Max(dates)
         IN  SelectSeq(all_data, LAMBDA r : r["date"].v = d)
                 \o SortedFrom(all_data, dates \ {d})

\* A sort that is ascending and then reversed: latest date first, but rows of
\* one date in the reverse of their order.
RECURSIVE SortedFromReversed(_, _)
SortedFromReversed(all_data, dates) ==
    IF dates = {} THEN <<>>
    ELSE LET d == Max(dates)
             same == SelectSeq(all_data, LAMBDA r : r["date"].v = d)
         IN  [i \in 1..Len(same) |-> same[Len(same) + 1 - i]]
                 \o SortedFromReversed(all_data, dates \ {d})

SortedAscendingReversed(all_data) ==
    SortedFromReversed(all_data, {all_data[i]["date"].v : i \in DOMAIN all_data})

SortedByDateDesc(all_data) ==
    SortedFrom(all_data, {all_data[i]["date"].v : i \in DOMAIN all_data})

\* The exception the conversion loop raises: that of the first bad row.
DailyError(all_data) ==
    LET i == CHOOSE k \in DOMAIN all_data :
                 DailyBad(all_data[k]) /\ \A j \in 1..(k - 1) : ~DailyBad(all_data[j])
    IN  IF "date" \notin DOMAIN all_data[i] THEN "KeyError" ELSE "TypeError"

\* Lines 307-312: after the loop, convert every row, sort, return.
DailyReturn(all_data) ==
    IF \E i \in DOMAIN all_data : DailyBad(all_data[i])
    THEN /\ pc' = "raised"
         /\ exc' = DailyError(all_data)
         /\ rows' = <<>>
    ELSE /\ pc' = "returned"
         /\ exc' = exc
         /\ rows' = SortedByDateDesc([i \in DOMAIN all_data |-> DailyRow(all_data[i])])

\* The rows the `for feature in features` loop of a daily fetch appends.
PageAttrs(features) == [i \in 1..Len(features) |-> AttrsOf(features[i])]

\* The payload `data` is received.
Receive(data) == served' = Append(served, DataFeatures(data))

\* One iteration of the loop of a daily fetch on payload `data`.
DailyIteration(data) ==
    LET features == DataFeatures(data)
    IN  /\ UNCHANGED <<fn, source, geojson_features>>
        /\ IF features = <<>>
           THEN offset' = offset /\ DailyReturn(rows)
           ELSE IF ShortPage(features)
                THEN offset' = offset /\ DailyReturn(rows \o PageAttrs(features))
                ELSE /\ pc' = "loop"
                     /\ offset' = offset + limit
                     /\ rows' = rows \o PageAttrs(features)
                     /\ exc' = exc

get_daily_chokepoints ==
    \/ Begin("get_daily_chokepoints")
    \/ /\ pc = "loop"
       /\ fn = "get_daily_chokepoints"
       /\ FetchOnly
       /\ requests' = Append(requests, Params(fn, offset, 1))
       /\ logged' = logged
       /\ \/ \E data \in Responses(fn, Params(fn, offset, 1).resultOffset, Len(served) + 1) :
                 Receive(data) /\ DailyIteration(data)
          \/ \E e \in DownloadFailures : Raise(e) /\ UNCHANGED served

\* The records of the `except RequestsJSONDecodeError` handler: l.390 before
\* the request is issued again, l.400-408 once its response is there, l.417
\* when that does not parse either.
LogDecodeError == <<"JSONDecodeError when calling Daily_Trade_Data endpoint">>
LogResponse ==
    <<"DEBUG Daily_Trade_Data status_code", "DEBUG Daily_Trade_Data content-type",
      "DEBUG Daily_Trade_Data body">>
LogSecondFailure == <<"Second JSON parse attempt also failed">>

\* A handler that raises the failure of the second parse (exc2, the
\* ValueError of resp.json()) instead of the first.
RaiseSecondParseFailure == Raise("ValueError")

\* `raise exc from exc2` (l.425): the first failure is raised again.
RaiseOriginal == Raise("JSONDecodeError")

\* A handler that parses nothing and goes on with what `data` held.
RetriedPageDropped(data) == ErrorPayload

\* `data = resp.json()` (l.415): the body of the second response is the page.
RetriedPage(data) == data

\* get_daily_ports: when download_json raises RequestsJSONDecodeError the
\* request is issued again with Download (attempt 2, the same params); its
\* body either parses, and is the page, or the first error is raised again.
\* Any other failure of either request propagates.
get_daily_ports ==
    \/ Begin("get_daily_ports")
    \/ /\ pc = "loop"
       /\ fn = "get_daily_ports"
       /\ FetchOnly
       /\ \/ /\ requests' = Append(requests, Params(fn, offset, 1))
             /\ logged' = logged
             /\ \/ \E data \in Responses(fn, Params(fn, offset, 1).resultOffset,
                                          Len(served) + 1) :
                       Receive(data) /\ DailyIteration(data)
                \/ Raise("DownloadError") /\ UNCHANGED served
          \/ /\ requests' = requests \o <<Params(fn, offset, 1), Params(fn, offset, 2)>>
             /\ \/ /\ logged' = logged \o LogDecodeError \o LogResponse
                   /\ \E data \in Responses(fn, Params(fn, offset, 2).resultOffset,
                                              Len(served) + 1) :
                          Receive(data) /\ DailyIteration(RetriedPage(data))
                \/ /\ logged' = logged \o LogDecodeError \o LogResponse \o LogSecondFailure
                   /\ RaiseOriginal
                   /\ UNCHANGED served
                \/ /\ logged' = logged \o LogDecodeError
                   /\ Raise("DownloadError")
                   /\ UNCHANGED served

\* ------------------------------------------------------------ get_date_range

\* An interval test that is content with either key.
IsIntervalEitherKey(row) == "fromdate" \in DOMAIN row \/ "todate" \in DOMAIN row

\* An interval test by value: a row whose fromdate and todate are both None
\* is not an interval row.
IsIntervalByValue(row) ==
    /\ "fromdate" \in DOMAIN row
    /\ "todate" \in DOMAIN row
    /\ ~(IsNone(row["fromdate"]) /\ IsNone(row["todate"]))

\* `"fromdate" in row and "todate" in row`.
IsInterval(row) == "fromdate" \in DOMAIN row /\ "todate" \in DOMAIN row

\* What a row offers to from_dates: row.get("fromdate") of an interval row,
\* row.get("date") of any other row; appended only if it is not None.
FromCandidate(row) ==
    IF IsInterval(row) THEN Get(row, "fromdate") ELSE Get(row, "date")

\* to_dates fed from fromdate (a copied line).
ToCandidateFromdate(row) ==
    IF IsInterval(row) THEN Get(row, "fromdate") ELSE Get(row, "date")

\* What a row offers to to_dates.
ToCandidate(row) ==
    IF IsInterval(row) THEN Get(row, "todate") ELSE Get(row, "date")

\* The list from_dates after the `for row in data` loop.
from_dates(rws) ==
    SelectSeq([i \in 1..Len(rws) |-> FromCandidate(rws[i])], LAMBDA x : ~IsNone(x))

\* The list to_dates after the loop.
to_dates(rws) ==
    SelectSeq([i \in 1..Len(rws) |-> ToCandidate(rws[i])], LAMBDA x : ~IsNone(x))

Range(seq) == {seq[i] : i \in DOMAIN seq}

\* max() where min() is meant.
MinDateIsMax(seq) == CHOOSE x \in Range(seq) : \A y \in Range(seq) : y.v <= x.v

\* min() and max() of a non-empty list of date-times.
MinDate(seq) == CHOOSE x \in Range(seq) : \A y \in Range(seq) : x.v <= y.v
MaxDate(seq) == CHOOSE x \in Range(seq) : \A y \in Range(seq) : y.v <= x.v

\* get_date_range(data): (None, None) when either list is empty.
get_date_range(rws) ==
    IF from_dates(rws) = <<>> \/ to_dates(rws) = <<>>
    THEN <<NullV, NullV>>
    ELSE <<MinDate(from_dates(rws)), MaxDate(to_dates(rws))>>

\* --------------------------------------------------------------- generators

\* An empty test that comes after the GeoJSON file is written.
ReturnNoneAfterDump ==
    /\ pc' = "done"
    /\ dataset' = NoneDataset
    /\ geojson_file' = geojson_features
    /\ effects' = <<"json.dump">>
    /\ UNCHANGED <<fn, source, offset, rows, geojson_features, requests, served, csv,
                   date_range_data, date_range, exc, country_code, port_features,
                   port_countries>>

\* `if not rows: return None`, before anything else is done.
ReturnNone ==
    /\ pc' = "done"
    /\ dataset' = NoneDataset
    /\ UNCHANGED <<fn, source, offset, rows, geojson_features, requests, served, effects,
                   csv, geojson_file, date_range_data, date_range, exc,
                   country_code, port_features, port_countries>>

\* generate_ports_dataset and generate_chokepoints_dataset on what the fetch
\* returned: a fixed time period, the CSV resource from the rows, the
\* GeoJSON file from the collection.
GenerateGeo(f, name, start) ==
    /\ pc = "returned"
    /\ fn = f
    /\ logged' = logged
    /\ IF rows = <<>>
       THEN ReturnNone
       ELSE /\ pc' = "done"
            /\ dataset' = Dataset(name, <<start, "now">>)
            /\ csv' = rows
            /\ geojson_file' = geojson_features
            /\ effects' = <<"generate_resource_from_iterable", "json.dump">>
            /\ UNCHANGED <<fn, source, offset, rows, geojson_features, requests, served,
                           date_range_data, date_range, exc,
                           country_code, port_features, port_countries>>

generate_ports_dataset == GenerateGeo("get_ports", "ports", "2023-08-29T04:08:45")

generate_chokepoints_dataset ==
    GenerateGeo("get_chokepoints", "chokepoints", "2023-09-08T06:00:02")

generate_daily_chokepoints_dataset ==
    /\ pc = "returned"
    /\ fn = "get_daily_chokepoints"
    /\ logged' = logged
    /\ IF rows = <<>>
       THEN ReturnNone
       ELSE /\ pc' = "done"
            /\ date_range_data' = rows
            /\ date_range' = get_date_range(rows)
            /\ dataset' = Dataset("daily-chokepoint-transit-calls-and-shipment-volume-estimates",
                                get_date_range(rows))
            /\ csv' = rows
            /\ effects' = <<"get_date_range", "generate_resource_from_iterable">>
            /\ UNCHANGED <<fn, source, offset, rows, geojson_features, requests, served,
                           geojson_file, exc,
                           country_code, port_features, port_countries>>

\* The country codes a caller passes, and those HDX recognises:
\* add_country_location raises HDXError on any other.
CountryCodes == {"ABW", "XXX"}
RecognisedCountries == {"ABW"}

\* An `except HDXError` that logs and goes on to the resource.
SkipCountryFallsThrough ==
    /\ dataset' = Dataset("country-daily-port-activity-data-and-shipment-estimates",
                          get_date_range(rows))
    /\ csv' = rows
    /\ effects' = <<"get_date_range", "generate_resource_from_iterable">>

\* `except HDXError: logger.error(...); return None` (l.479-481): the date
\* range was computed, no resource is generated.
SkipCountry ==
    /\ dataset' = NoneDataset
    /\ csv' = csv
    /\ effects' = <<"get_date_range">>

\* generate_daily_ports_dataset(country_code, data_by_country); the name is
\* the slug of the title, which starts with the country's name.
generate_daily_ports_dataset ==
    /\ pc = "returned"
    /\ fn = "get_daily_ports"
    /\ IF rows = <<>>
       THEN ReturnNone /\ logged' = Append(logged, "No daily ports data for country")
       ELSE \E code \in CountryCodes :
            /\ pc' = "done"
            /\ country_code' = code
            /\ logged' = IF code \in RecognisedCountries THEN logged
                         ELSE Append(logged, "Couldn't find country")
            /\ date_range_data' = rows
            /\ date_range' = get_date_range(rows)
            /\ IF code \in RecognisedCountries
               THEN /\ dataset' = Dataset("country-daily-port-activity-data-and-shipment-estimates",
                                         get_date_range(rows))
                    /\ csv' = rows
                    /\ effects' = <<"get_date_range", "generate_resource_from_iterable">>
               ELSE SkipCountry
            /\ UNCHANGED <<fn, source, offset, rows, geojson_features, requests, served,
                           geojson_file, exc, port_features, port_countries>>

\* A row the `for row in disruptions_rows` loop raises on: row["fromdate"]
\* is absent (KeyError) or not a number, or todate is neither None nor a
\* number (TypeError).
FromdateBad(row) == "fromdate" \notin DOMAIN row \/ ~CanConvert(row["fromdate"])

TodateBad(row) == ~IsNone(Get(row, "todate")) /\ ~CanConvert(row["todate"])

DisruptionBad(row) == FromdateBad(row) \/ TodateBad(row)

\* Lines 572-574: row["fromdate"] converted.
FromdateConverted(row) == SetKey(row, "fromdate", FromTimestamp(row["fromdate"]))

\* todate always set to fromdate, whatever it held.
TodateSetAlwaysFromdate(row) == SetKey(row, "todate", row["fromdate"])

\* Lines 575-580 on a row whose fromdate is converted: todate defaulted to
\* fromdate when absent or None, converted otherwise.
TodateSet(row) ==
    IF IsNone(Get(row, "todate"))
    THEN SetKey(row, "todate", row["fromdate"])
    ELSE SetKey(row, "todate", FromTimestamp(row["todate"]))

\* The body of the loop on one row: lines 572-581.
DisruptionRow(row) == Pop(TodateSet(FromdateConverted(row)), "ObjectId")

\* The row the loop raised on, as the raise leaves it: fromdate is converted
\* already when it is todate that raises.
DisruptionRowRaised(row) == IF FromdateBad(row) THEN row ELSE FromdateConverted(row)

\* The index of the first row the loop raises on, 0 if there is none.
FirstBad(rws) ==
    IF \E i \in DOMAIN rws : DisruptionBad(rws[i])
    THEN CHOOSE k \in DOMAIN rws :
             DisruptionBad(rws[k]) /\ \A j \in 1..(k - 1) : ~DisruptionBad(rws[j])
    ELSE 0

\* disruptions_rows after the loop (in place): every row converted, or, when
\* row `bad` raises, the rows before it converted and the rest as they were.
DisruptionRows(rws, bad) ==
    [i \in 1..Len(rws) |->
        IF bad = 0 \/ i < bad THEN DisruptionRow(rws[i])
        ELSE IF i = bad THEN DisruptionRowRaised(rws[i])
        ELSE rws[i]]

\* Rows that are copies of the properties: the collection stays as fetched.
NotAliased(features, rws) == features

\* The rows are the properties of the features (the same dicts): a change
\* of a row shows in the collection.
Aliased(features, rws) ==
    [i \in 1..Len(features) |-> SetKey(features[i], "properties", rws[i])]

\* json.dump can write the collection: no property is a datetime (json
\* raises TypeError, "Object of type datetime is not JSON serializable").
JsonSerializable(features) ==
    \A i \in DOMAIN features :
        \A k \in DOMAIN features[i]["properties"] :
            features[i]["properties"][k].t # "datetime"

\* The collections generate_disruptions_dataset may be handed with the rows:
\* the one get_disruptions returned (its properties are the rows) and, once
\* a first call wrote it, a copy of it as it was fetched.
CollectionArgs ==
    IF pc = "returned" THEN {geojson_features} ELSE {geojson_features, geojson_file}

\* generate_disruptions_dataset(disruptions_rows, disruptions_geojson), the
\* first time on what get_disruptions returned, and again on the same rows
\* after a call that returned.
generate_disruptions_dataset ==
    /\ pc \in {"returned", "done"}
    /\ fn = "get_disruptions"
    /\ logged' = logged
    /\ IF rows = <<>>
       THEN ReturnNone
       ELSE \E geojson \in CollectionArgs :
            /\ effects' = effects \o
                    (IF JsonSerializable(geojson) /\ FirstBad(rows) = 0
                     THEN <<"json.dump", "get_date_range", "generate_resource_from_iterable">>
                     ELSE <<"json.dump">>)
            /\ UNCHANGED <<fn, source, offset, requests, served,
                           country_code, port_features, port_countries>>
            /\ IF ~JsonSerializable(geojson)
               THEN \* l.567-568: the file is opened, json.dump raises after
                    \* writing the start of the collection
                    /\ pc' = "raised"
                    /\ exc' = "TypeError"
                    /\ geojson_file' = <<>>
                    /\ UNCHANGED <<rows, geojson_features, dataset, csv, date_range_data,
                                   date_range>>
               ELSE LET bad == FirstBad(rows)
                        converted == DisruptionRows(rows, bad)
                    IN  /\ geojson_file' = geojson
                        /\ rows' = converted
                        /\ geojson_features' = Aliased(geojson_features, converted)
                        /\ IF bad # 0
                           THEN /\ pc' = "raised"
                                /\ exc' = IF "fromdate" \notin DOMAIN rows[bad]
                                          THEN "KeyError" ELSE "TypeError"
                                /\ UNCHANGED <<dataset, csv, date_range_data, date_range>>
                           ELSE /\ pc' = "done"
                                /\ exc' = exc
                                /\ date_range_data' = converted
                                /\ date_range' = get_date_range(converted)
                                /\ dataset' = Dataset("disruptions",
                                                      get_date_range(converted))
                                /\ csv' = converted

Next ==
    \/ get_ports
    \/ get_chokepoints
    \/ get_daily_chokepoints
    \/ get_daily_ports
    \/ get_disruptions
    \/ generate_ports_dataset
    \/ generate_chokepoints_dataset
    \/ generate_daily_chokepoints_dataset
    \/ generate_daily_ports_dataset
    \/ generate_disruptions_dataset

Spec == Init /\ [][Next]_vars

\* ------------------------------------------- get_date_range on any row list

\* What a row may hold under each of the keys fromdate, todate and date:
\* nothing (the key is absent), None, or one of two date-times.
Absent == [t |-> "absent", v |-> 0]

DateOptions == {Absent, NullV, DateTimeV(1000), DateTimeV(2000)}

DateKeys == {"fromdate", "todate", "date"}

\* The row that holds, under each key, what `choice` gives it.
RowOf(choice) ==
    [k \in {x \in DateKeys : choice[x] # Absent} |-> choice[k]]

DateRows == {RowOf(choice) : choice \in [DateKeys -> DateOptions]}

\* Every list of at most MaxRows such rows.
DateRowLists == UNION {[1..n -> DateRows] : n \in 0..MaxRows}

InitDateRange ==
    /\ pc = "date_range_call"
    /\ date_range_data \in DateRowLists
    /\ date_range = <<NullV, NullV>>
    /\ effects = <<>>
    /\ fn = "get_date_range"
    /\ source = "regular"
    /\ offset = 0
    /\ rows = <<>>
    /\ geojson_features = <<>>
    /\ requests = <<>>
    /\ served = <<>>
    /\ dataset = NotGenerated
    /\ csv = <<>>
    /\ geojson_file = <<>>
    /\ exc = ""
    /\ country_code = ""
    /\ logged = <<>>
    /\ port_features = <<>>
    /\ port_countries = <<>>

\* The call get_date_range(data) and its return.
CallDateRange ==
    /\ pc = "date_range_call"
    /\ pc' = "date_range_returned"
    /\ date_range' = get_date_range(date_range_data)
    /\ UNCHANGED <<fn, source, offset, rows, geojson_features, requests, served, dataset,
                   effects, csv, geojson_file, date_range_data, exc,
                   country_code, port_features, port_countries, logged>>

NextDateRange == CallDateRange

SpecDateRange == InitDateRange /\ [][NextDateRange]_vars

\* --------------------------------------------------------- get_port_countries

\* A str, held as the sequence of its code points: "ABW" is <<65, 66, 87>>.
StrV(codepoints) == [t |-> "str", v |-> codepoints]

\* What a feature may hold under ISO3: nothing, None, the empty string, or a
\* code: "AB", "ABW", "USA", "abw".
Iso3Options ==
    {Absent, NullV, StrV(<<>>), StrV(<<65, 66>>), StrV(<<65, 66, 87>>),
     StrV(<<85, 83, 65>>), StrV(<<97, 98, 119>>)}

FeatureOf(iso3) == IF iso3 = Absent THEN EmptyRow ELSE [ISO3 |-> iso3]

\* Every list of at most MaxFeatures such features.
FeatureLists == UNION {[1..n -> {FeatureOf(x) : x \in Iso3Options}] : n \in 0..MaxFeatures}

\* A test that lets the empty string through: `if iso3 is not None`.
TruthyNotNone(x) == ~IsNone(x)

\* `if iso3:` - neither None nor the empty string.
Truthy(x) == ~IsNone(x) /\ x.v # <<>>

\* iso3_set after the loop.
iso3_set(features) ==
    {x \in {Get(features[i], "ISO3") : i \in DOMAIN features} : Truthy(x)}

\* a < b for two str: the order of the code points at the first position
\* where they differ, a proper prefix first.
RECURSIVE StrLess(_, _)
StrLess(a, b) ==
    IF b = <<>> THEN FALSE
    ELSE IF a = <<>> THEN TRUE
    ELSE IF Head(a) # Head(b) THEN Head(a) < Head(b)
    ELSE StrLess(Tail(a), Tail(b))

\* sorted(S) of a set of str.
RECURSIVE SortedStrs(_)
SortedStrs(S) ==
    IF S = {} THEN <<>>
    ELSE LET least == CHOOSE x \in S : \A y \in S \ {x} : StrLess(x.v, y.v)
         IN  <<least>> \o SortedStrs(S \ {least})

get_port_countries(features) == SortedStrs(iso3_set(features))

InitPortCountries ==
    /\ pc = "port_countries_call"
    /\ port_features \in FeatureLists
    /\ port_countries = <<>>
    /\ fn = "get_port_countries"
    /\ source = "regular"
    /\ offset = 0
    /\ rows = <<>>
    /\ geojson_features = <<>>
    /\ requests = <<>>
    /\ served = <<>>
    /\ dataset = NotGenerated
    /\ effects = <<>>
    /\ csv = <<>>
    /\ geojson_file = <<>>
    /\ date_range_data = <<>>
    /\ date_range = <<NullV, NullV>>
    /\ exc = ""
    /\ country_code = ""
    /\ logged = <<>>

\* The call get_port_countries(features) and its return.
CallPortCountries ==
    /\ pc = "port_countries_call"
    /\ pc' = "port_countries_returned"
    /\ port_countries' = get_port_countries(port_features)
    /\ UNCHANGED <<fn, source, offset, rows, geojson_features, requests, served, dataset,
                   effects, csv, geojson_file, date_range_data, date_range, exc,
                   country_code, port_features, logged>>

NextPortCountries == CallPortCountries

SpecPortCountries == InitPortCountries /\ [][NextPortCountries]_vars

\* ------------------------------------------------------------ pagination claims

\* The requests of the loop, one per iteration: a request get_daily_ports
\* issues again (attempt 2) repeats the one before it.
PageRequests == SelectSeq(requests, LAMBDA r : r.attempt = 1)

\* The sizes of the pages received, in order.
PageSizesServed == [i \in 1..Len(served) |-> Len(served[i])]

RECURSIVE Flatten(_)
Flatten(pages) ==
    IF pages = <<>> THEN <<>> ELSE Head(pages) \o Flatten(Tail(pages))

RECURSIVE SumSeq(_)
SumSeq(ns) == IF ns = <<>> THEN 0 ELSE Head(ns) + SumSeq(Tail(ns))

\* The fetch returned to its caller (the generator may have run since).
Returned == pc \in {"returned", "done"}

\* C1: the loop stops at the first page with zero or fewer than 1000
\* features and requests nothing after it, and a full page is followed by
\* another request: every page but the last received is full; once a short
\* page is received the loop is left with as many requests as pages; a
\* fetch that returned received a short page last, issued as many requests
\* as the index of that page, and returned as many records as the pages
\* requested held.
C1_StopsAtFirstShortPage ==
    /\ \A i \in 1..(Len(served) - 1) : Len(served[i]) = limit
    /\ (served # <<>> /\ Len(served[Len(served)]) < limit) =>
           (pc # "loop" /\ Len(PageRequests) = Len(served))
    /\ pc = "loop" => Len(PageRequests) = Len(served)
    /\ Returned =>
           /\ served # <<>>
           /\ Len(served[Len(served)]) < limit
           /\ Len(PageRequests) = Len(served)
           /\ Len(rows) = SumSeq(PageSizesServed)

\* C1 witness: pages of 1000, 1000 and 999 records: three requests, 2999
\* records returned.
C1_Witness ==
    /\ pc = "returned"
    /\ PageSizesServed = <<limit, limit, limit - 1>>
    /\ Len(requests) = 3
    /\ Len(rows) = 2999

\* The number of loop requests among the first k requests.
PageOf(k) == Len(SelectSeq(SubSeq(requests, 1, k), LAMBDA r : r.attempt = 1))

\* C2: the first request uses resultOffset 0 and the request of page k uses
\* resultOffset (k-1)*1000 with resultRecordCount 1000 (a request issued
\* again repeats the offset of its page); that offset is the number of
\* records received before it; the local offset is 1000 times the number of
\* full pages received, and while the loop runs it is the number of records
\* accumulated.
C2_OffsetIsRecordsSoFar ==
    /\ \A k \in DOMAIN requests :
           /\ requests[k].resultRecordCount = limit
           /\ requests[k].resultOffset = (PageOf(k) - 1) * limit
           /\ requests[k].resultOffset =
                  SumSeq([i \in 1..(PageOf(k) - 1) |-> Len(served[i])])
    /\ requests # <<>> => requests[1].resultOffset = 0
    /\ offset = limit * Cardinality({i \in DOMAIN served : Len(served[i]) = limit})
    /\ pc = "loop" => offset = Len(rows)

\* C2 witness: two full pages were received and the third request was
\* issued at offset 2000.
C2_Witness ==
    /\ Len(requests) = 3
    /\ requests[2].resultOffset = limit
    /\ requests[3].resultOffset = 2 * limit
    /\ Len(served) = 3

\* The rows of the records received, in the order received: the properties
\* (without ObjectId for ports and chokepoints) or the attributes.
ReceivedRows ==
    LET flat == Flatten(served)
    IN  [i \in 1..Len(flat) |->
            IF fn \in GeoFunctions
            THEN PropsAfter(flat[i], fn # "get_disruptions")
            ELSE AttrsOf(flat[i])]

\* C3: the accumulated rows are the rows of the pages received, page after
\* page and in page order, none dropped: while the loop runs and, for
\* get_ports, get_chokepoints and get_disruptions, when it returned; a
\* daily fetch returns these rows converted and sorted by date.
C3_ConcatenationOfPages ==
    /\ pc = "loop" => rows = ReceivedRows
    /\ (pc = "returned" /\ fn \in GeoFunctions) => rows = ReceivedRows
    /\ (pc = "returned" /\ fn \notin GeoFunctions) =>
           rows = SortedByDateDesc([i \in DOMAIN ReceivedRows |-> DailyRow(ReceivedRows[i])])

\* C3 witness: the second page repeated the records of the first, and the
\* returned rows hold the first record twice.
C3_Witness ==
    /\ pc = "returned"
    /\ fn = "get_ports"
    /\ source = "repeating"
    /\ PageSizesServed = <<limit, limit - 1>>
    /\ served[2][1] = served[1][1]
    /\ Len(rows) = 2 * limit - 1
    /\ rows[1] = rows[limit + 1]

\* ------------------------------------------------------- get_date_range claims

\* The min- and max-candidates as the row shapes define them: an interval
\* row (it has both keys fromdate and todate) gives its non-null fromdate
\* to the first and its non-null todate to the second; any other row gives
\* its non-null date to both.
HasBothKeys(row) == {"fromdate", "todate"} \subseteq DOMAIN row

HasDate(row) == "date" \in DOMAIN row /\ row["date"] # NullV

MinCandidates(rws) ==
    {rws[i]["fromdate"] : i \in {j \in DOMAIN rws :
        HasBothKeys(rws[j]) /\ rws[j]["fromdate"] # NullV}}
    \cup {rws[i]["date"] : i \in {j \in DOMAIN rws :
        ~HasBothKeys(rws[j]) /\ HasDate(rws[j])}}

MaxCandidates(rws) ==
    {rws[i]["todate"] : i \in {j \in DOMAIN rws :
        HasBothKeys(rws[j]) /\ rws[j]["todate"] # NullV}}
    \cup {rws[i]["date"] : i \in {j \in DOMAIN rws :
        ~HasBothKeys(rws[j]) /\ HasDate(rws[j])}}

\* The least and the greatest of a set of date-times, None for the empty set.
Earliest(S) == IF S = {} THEN NullV ELSE CHOOSE x \in S : \A y \in S : x.v <= y.v
Latest(S) == IF S = {} THEN NullV ELSE CHOOSE x \in S : \A y \in S : y.v <= x.v

\* get_date_range returned.
DateRangeReturned == pc = "date_range_returned"

\* A row that carries a date: it gives a candidate to one of the two sets.
DateBearing(row) ==
    \/ HasBothKeys(row) /\ (row["fromdate"] # NullV \/ row["todate"] # NullV)
    \/ ~HasBothKeys(row) /\ HasDate(row)

\* A row that gives a candidate to both sets, the first not after the second.
OrderedRow(row) ==
    \/ ~HasBothKeys(row) /\ HasDate(row)
    \/ /\ HasBothKeys(row)
       /\ row["fromdate"] # NullV
       /\ row["todate"] # NullV
       /\ row["fromdate"].v <= row["todate"].v

\* C4 as stated: with at least one date-bearing row the result is a pair
\* min <= max, min a min-candidate and max a max-candidate.
C4_Original ==
    (DateRangeReturned /\ \E i \in DOMAIN date_range_data : DateBearing(date_range_data[i])) =>
        /\ date_range[1] \in MinCandidates(date_range_data)
        /\ date_range[2] \in MaxCandidates(date_range_data)
        /\ date_range[1].v <= date_range[2].v

\* C4 amended: when both candidate sets are non-empty the result is a pair
\* of a min-candidate and a max-candidate, and min <= max if some row gives
\* a candidate to both sets with its fromdate not after its todate.
C4_MinNotAfterMax ==
    (DateRangeReturned /\ MinCandidates(date_range_data) # {}
                       /\ MaxCandidates(date_range_data) # {}) =>
        /\ date_range[1] \in MinCandidates(date_range_data)
        /\ date_range[2] \in MaxCandidates(date_range_data)
        /\ (\E i \in DOMAIN date_range_data : OrderedRow(date_range_data[i])) =>
               date_range[1].v <= date_range[2].v

\* C4 witness: an interval row and a point row, the result strictly
\* increasing.
C4_Witness ==
    /\ DateRangeReturned
    /\ Len(date_range_data) = 2
    /\ HasBothKeys(date_range_data[1])
    /\ ~HasBothKeys(date_range_data[2])
    /\ OrderedRow(date_range_data[2])
    /\ date_range[1] \in MinCandidates(date_range_data)
    /\ date_range[1].v < date_range[2].v

\* C5 as stated: the result is the minimum of the min-candidates and the
\* maximum of the max-candidates, also when only one of the sets is
\* non-empty.
C5_Original ==
    DateRangeReturned =>
        date_range = <<Earliest(MinCandidates(date_range_data)),
                       Latest(MaxCandidates(date_range_data))>>

\* C5 amended: when both candidate sets are non-empty the result is the
\* minimum of the min-candidates and the maximum of the max-candidates;
\* when either set is empty the result is (None, None).
C5_MinAndMaxOfCandidates ==
    DateRangeReturned =>
        IF MinCandidates(date_range_data) = {} \/ MaxCandidates(date_range_data) = {}
        THEN date_range = <<NullV, NullV>>
        ELSE date_range = <<Earliest(MinCandidates(date_range_data)),
                            Latest(MaxCandidates(date_range_data))>>

\* C5 witness: only the min-candidates are non-empty and the result is
\* (None, None).
C5_Witness ==
    /\ DateRangeReturned
    /\ MinCandidates(date_range_data) # {}
    /\ MaxCandidates(date_range_data) = {}
    /\ date_range = <<NullV, NullV>>

\* C6: for the empty row list and for a list none of whose rows has a date
\* field (neither both of fromdate and todate, nor date) the result is
\* (None, None).
C6_NoDatesGivesNone ==
    (DateRangeReturned /\ \A i \in DOMAIN date_range_data :
            ~HasBothKeys(date_range_data[i]) /\ "date" \notin DOMAIN date_range_data[i]) =>
        date_range = <<NullV, NullV>>

\* C6 witness: two rows, one with a fromdate only and one with a todate
\* only, and the result is (None, None).
C6_Witness ==
    /\ DateRangeReturned
    /\ Len(date_range_data) = 2
    /\ DOMAIN date_range_data[1] = {"fromdate"}
    /\ DOMAIN date_range_data[2] = {"todate"}
    /\ date_range_data[1]["fromdate"] # NullV
    /\ date_range_data[2]["todate"] # NullV
    /\ date_range = <<NullV, NullV>>

\* The list without its i-th row.
WithoutRow(rws, i) == SubSeq(rws, 1, i - 1) \o SubSeq(rws, i + 1, Len(rws))

\* C7: rows are classified one by one by the presence of keys: a row with
\* both keys and both values None gives nothing, even if it has a date (the
\* result is that of the list without it); a row without one of the two
\* keys gives its non-null date to both sets (the result spans it).
C7_ClassifiedByKeyPresence ==
    DateRangeReturned =>
        \A i \in DOMAIN date_range_data :
            LET row == date_range_data[i]
            IN  /\ (HasBothKeys(row) /\ row["fromdate"] = NullV /\ row["todate"] = NullV) =>
                       date_range = get_date_range(WithoutRow(date_range_data, i))
                /\ (~HasBothKeys(row) /\ HasDate(row)) =>
                       /\ date_range[1] # NullV
                       /\ date_range[1].v <= row["date"].v
                       /\ row["date"].v <= date_range[2].v

\* C7 witness: a row with both keys None and a date, and a row that has a
\* fromdate but no todate and a later date: the result is that later date.
C7_Witness ==
    /\ DateRangeReturned
    /\ Len(date_range_data) = 2
    /\ date_range_data[1] = [fromdate |-> NullV, todate |-> NullV, date |-> DateTimeV(1000)]
    /\ date_range_data[2] = [fromdate |-> DateTimeV(1000), date |-> DateTimeV(2000)]
    /\ date_range = <<DateTimeV(2000), DateTimeV(2000)>>

\* ------------------------------------------------------- normalisation claims

HasObjectId(row) == "ObjectId" \in DOMAIN row

\* No row of the list and no properties of a feature of the collection
\* holds the key ObjectId.
NoObjectId(rws, features) ==
    /\ \A i \in DOMAIN rws : ~HasObjectId(rws[i])
    /\ \A i \in DOMAIN features : ~HasObjectId(features[i]["properties"])

\* The generator of the disruptions dataset ran to its end on rows.
DisruptionsGenerated ==
    pc = "done" /\ fn = "get_disruptions" /\ dataset.returned = "Dataset"

\* C8 as stated: every row a fetch returns, and the properties of every
\* feature of the collection it returns, lack the key ObjectId.
C8_Original ==
    pc = "returned" => NoObjectId(rows, geojson_features)

\* C8 amended: the rows get_ports, get_chokepoints, get_daily_chokepoints
\* and get_daily_ports return, and the properties of the features get_ports
\* and get_chokepoints return, lack ObjectId; get_disruptions returns rows
\* and properties as received, and they lack ObjectId once
\* generate_disruptions_dataset has run: its rows, the rows of its CSV
\* resource and the properties of the collection in memory.
C8_NoObjectIdAfterNormalisation ==
    /\ (Returned /\ fn # "get_disruptions") => NoObjectId(rows, geojson_features)
    /\ (pc = "returned" /\ fn = "get_disruptions") =>
           LET received == Flatten(served)
           IN  /\ Len(rows) = Len(received)
               /\ \A i \in DOMAIN rows :
                      HasObjectId(rows[i]) <=> HasObjectId(PropsOrEmpty(received[i]))
    /\ DisruptionsGenerated =>
           /\ NoObjectId(rows, geojson_features)
           /\ \A i \in DOMAIN csv : ~HasObjectId(csv[i])

\* C8 witness: get_disruptions received records with ObjectId, and after
\* generate_disruptions_dataset the rows are without it.
C8_Witness ==
    /\ DisruptionsGenerated
    /\ Len(rows) = limit - 1
    /\ LET received == Flatten(served)
       IN  \A i \in DOMAIN rows : HasObjectId(received[i]["properties"])
    /\ \A i \in DOMAIN rows : ~HasObjectId(rows[i])

\* The UTC date-time of an epoch-millisecond value.
UtcOf(x) == [t |-> "datetime", v |-> x.v * 1000]

\* C9: after generate_disruptions_dataset a row received with todate absent
\* or null has todate equal to its converted fromdate, and a row received
\* with an epoch todate has todate converted from that value, whatever its
\* fromdate.
C9_TodateDefaultsToFromdate ==
    DisruptionsGenerated =>
        LET received == Flatten(served)
        IN  \A i \in DOMAIN rows :
                LET props == received[i]["properties"]
                IN  /\ rows[i]["fromdate"] = UtcOf(props["fromdate"])
                    /\ IF "todate" \notin DOMAIN props \/ props["todate"] = NullV
                       THEN rows[i]["todate"] = rows[i]["fromdate"]
                       ELSE rows[i]["todate"] = UtcOf(props["todate"])

\* C9 witness: rows received with todate null, absent, later and earlier
\* than fromdate, all normalised.
C9_Witness ==
    /\ DisruptionsGenerated
    /\ Len(rows) >= 4
    /\ served[1][4]["properties"]["todate"] = NullV
    /\ rows[4]["todate"] = rows[4]["fromdate"]
    /\ "todate" \notin DOMAIN served[1][1]["properties"]
    /\ rows[1]["todate"] = rows[1]["fromdate"]
    /\ served[1][3]["properties"]["todate"].v < served[1][3]["properties"]["fromdate"].v
    /\ rows[3]["todate"].v < rows[3]["fromdate"].v

IsDateTime(row, key) == key \in DOMAIN row /\ row[key].t = "datetime"

\* C10: every row get_daily_chokepoints and get_daily_ports return has a
\* date-time under date, and every disruption row handed to get_date_range
\* and to the CSV resource has date-times under fromdate and todate.
C10_DatesAreDateTimes ==
    /\ (Returned /\ fn \in {"get_daily_chokepoints", "get_daily_ports"}) =>
           \A i \in DOMAIN rows : IsDateTime(rows[i], "date")
    /\ fn = "get_disruptions" =>
           \A i \in DOMAIN date_range_data :
               IsDateTime(date_range_data[i], "fromdate")
                   /\ IsDateTime(date_range_data[i], "todate")
    /\ fn = "get_disruptions" =>
           \A i \in DOMAIN csv :
               IsDateTime(csv[i], "fromdate") /\ IsDateTime(csv[i], "todate")

\* C10 witness: a daily fetch received two pages of epoch dates and returned
\* them as date-times.
C10_Witness ==
    /\ pc = "returned"
    /\ fn = "get_daily_ports"
    /\ PageSizesServed = <<limit, limit - 1>>
    /\ LET received == Flatten(served)
       IN  \A i \in DOMAIN received : received[i]["attributes"]["date"].t = "int"
    /\ \A i \in DOMAIN rows : IsDateTime(rows[i], "date")

\* ------------------------------------------------------ rows and features

\* C11: in get_ports, get_chokepoints and get_disruptions the collection
\* holds as many features as there are rows, the i-th row is the properties
\* of the i-th feature, and the geometry of the i-th feature is that of the
\* i-th record received (absent if it was absent).
C11_RowsAreFeatureProperties ==
    (fn \in GeoFunctions /\ pc \in {"loop", "returned"}) =>
        LET received == Flatten(served)
        IN  /\ Len(geojson_features) = Len(rows)
            /\ Len(rows) = Len(received)
            /\ \A i \in DOMAIN rows :
                   /\ "properties" \in DOMAIN geojson_features[i]
                   /\ geojson_features[i]["properties"] = rows[i]
                   /\ DOMAIN geojson_features[i] = DOMAIN received[i] \cup {"properties"}
                   /\ \A k \in DOMAIN received[i] \ {"properties"} :
                          geojson_features[i][k] = received[i][k]

\* C11 witness: get_chokepoints returned after two pages that held records
\* with null and with absent properties.
C11_Witness ==
    /\ pc = "returned"
    /\ fn = "get_chokepoints"
    /\ PageSizesServed = <<limit, 1>>
    /\ Len(geojson_features) = limit + 1
    /\ "properties" \notin DOMAIN served[1][2]
    /\ served[1][3]["properties"] = NullV
    /\ geojson_features[3]["properties"] = EmptyRow
    /\ rows[3] = EmptyRow

\* ------------------------------------------------------------ the date sort

\* The rows of `seq` whose date is d, in the order of `seq`.
RowsOfDate(seq, d) == SelectSeq(seq, LAMBDA r : r["date"].v = d)

\* C12: what a daily fetch returns is the fetched rows (converted) in
\* another order: dates never increase from one row to the next, and the
\* rows of each date are exactly the fetched rows of that date, in the order
\* they were fetched.
C12_SortedByDateDescStable ==
    (Returned /\ fn \in {"get_daily_chokepoints", "get_daily_ports"}) =>
        LET fetched == [i \in DOMAIN ReceivedRows |-> DailyRow(ReceivedRows[i])]
            dates == {fetched[i]["date"].v : i \in DOMAIN fetched}
        IN  /\ Len(rows) = Len(fetched)
            /\ \A i \in 1..(Len(rows) - 1) : rows[i]["date"].v >= rows[i + 1]["date"].v
            /\ \A d \in dates : RowsOfDate(rows, d) = RowsOfDate(fetched, d)

\* C12 witness: a daily fetch returned two pages of rows of three dates; the
\* first two rows have the latest date and are the second and the fifth row
\* fetched, the last row has the earliest date.
C12_Witness ==
    /\ pc = "returned"
    /\ fn = "get_daily_chokepoints"
    /\ source = "regular"
    /\ PageSizesServed = <<limit, limit - 1>>
    /\ rows[1]["date"] = rows[2]["date"]
    /\ rows[1]["portid"] = IntV(2)
    /\ rows[2]["portid"] = IntV(5)
    /\ rows[Len(rows)]["date"].v < rows[1]["date"].v
    /\ served[1][1]["attributes"]["date"].v < served[1][2]["attributes"]["date"].v

\* ------------------------------------------------------- country extraction

PortCountriesReturned == pc = "port_countries_returned"

\* The distinct non-empty ISO3 values the features hold.
Iso3Values(features) ==
    {features[i]["ISO3"] : i \in {j \in DOMAIN features :
        /\ "ISO3" \in DOMAIN features[j]
        /\ features[j]["ISO3"] # NullV
        /\ features[j]["ISO3"].v # <<>>}}

\* str a is before str b in lexical order: they agree up to some position,
\* where a ends and b goes on, or a holds the smaller code point.
LexBefore(a, b) ==
    \E k \in 1..(Len(a) + 1) :
        /\ \A i \in 1..(k - 1) : i <= Len(b) /\ a[i] = b[i]
        /\ \/ k = Len(a) + 1 /\ Len(b) >= k
           \/ k <= Len(a) /\ k <= Len(b) /\ a[k] < b[k]

\* C13: get_port_countries returns the distinct non-empty ISO3 values of the
\* features, each once, in ascending lexical order; features without ISO3 or
\* with a null or empty ISO3 give nothing; the result is the same for the
\* list reversed and for the list repeated.
C13_DistinctSortedCountries ==
    PortCountriesReturned =>
        /\ {port_countries[i] : i \in DOMAIN port_countries} = Iso3Values(port_features)
        /\ Len(port_countries) = Cardinality(Iso3Values(port_features))
        /\ \A i \in 1..(Len(port_countries) - 1) :
               LexBefore(port_countries[i].v, port_countries[i + 1].v)
        /\ get_port_countries([i \in DOMAIN port_features |->
               port_features[Len(port_features) + 1 - i]]) = port_countries
        /\ get_port_countries(port_features \o port_features) = port_countries

\* C13 witness: the codes USA, ABW, USA give [ABW, USA].
C13_Witness ==
    /\ PortCountriesReturned
    /\ port_features = <<[ISO3 |-> StrV(<<85, 83, 65>>)], [ISO3 |-> StrV(<<65, 66, 87>>)],
                         [ISO3 |-> StrV(<<85, 83, 65>>)]>>
    /\ port_countries = <<StrV(<<65, 66, 87>>), StrV(<<85, 83, 65>>)>>

\* ----------------------------------------------------------- the generators

\* C14: a generator given an empty row list returns None: it does not
\* raise, writes no GeoJSON file, generates no resource and computes no date
\* range (every step from a fetch that returned no rows leaves all of these
\* as they were).
C14_EmptyRowsReturnNone ==
    [][(pc = "returned" /\ rows = <<>>) =>
           /\ pc' = "done"
           /\ dataset' = NoneDataset
           /\ exc' = ""
           /\ effects' = <<>>
           /\ csv' = <<>>
           /\ geojson_file' = <<>>
           /\ date_range_data' = <<>>
           /\ date_range' = <<NullV, NullV>>
           /\ country_code' = ""]_vars

\* C14 witness: generate_disruptions_dataset returned None for the empty
\* result of get_disruptions.
C14_Witness ==
    /\ pc = "done"
    /\ fn = "get_disruptions"
    /\ rows = <<>>
    /\ served = <<<<>>>>
    /\ dataset = NoneDataset
    /\ effects = <<>>

\* C15: when generate_daily_ports_dataset is given a country code HDX does
\* not recognise, it returns None, generates no CSV resource and raises
\* nothing; with a recognised code it returns the Dataset.
C15_UnknownCountrySkipped ==
    country_code # "" =>
        /\ pc = "done"
        /\ exc = ""
        /\ IF country_code \in RecognisedCountries
           THEN dataset.returned = "Dataset" /\ csv = rows
           ELSE /\ dataset = NoneDataset
                /\ csv = <<>>
                /\ \A i \in DOMAIN effects : effects[i] # "generate_resource_from_iterable"

\* C15 witness: rows of two pages for a country HDX does not recognise: the
\* date range was computed and no dataset returned.
C15_Witness ==
    /\ pc = "done"
    /\ fn = "get_daily_ports"
    /\ country_code = "XXX"
    /\ Len(rows) = limit + 1
    /\ date_range[1] # NullV
    /\ dataset = NoneDataset
    /\ csv = <<>>

\* ------------------------------------------------------------------ failures

\* A request of the fetch failed and the exception left the fetch: there is
\* a request without a page (a fetch whose date conversion raised has a page
\* for every request).
FetchFailed == pc = "raised" /\ effects = <<>> /\ Len(served) < Len(PageRequests)

\* The last request was one issued again.
LastRequestRetried == requests # <<>> /\ requests[Len(requests)].attempt = 2

\* The log ends with the record of the second parse failure.
SecondParseFailed ==
    Len(logged) >= 1 /\ <<logged[Len(logged)]>> = LogSecondFailure

\* The number of records of a first JSON decode error in the log.
DecodeErrorsLogged ==
    Cardinality({i \in DOMAIN logged : <<logged[i]>> = LogDecodeError})

\* C16 as stated: when the request issued again fails too, the failure that
\* reaches the caller is the first one.
C16_Original ==
    (fn = "get_daily_ports" /\ FetchFailed /\ LastRequestRetried) =>
        exc = "JSONDecodeError"

\* C16 amended: in get_daily_ports a request is issued again only right
\* after the first attempt of its page, with the same filter, offset and
\* page size, once for every JSON decode error logged, so no page is
\* attempted more than twice; when the second parse fails too the first
\* failure reaches the caller, and when the request issued again fails in
\* transport that failure does.
C16_RetriedOnceThenOriginal ==
    fn = "get_daily_ports" =>
        /\ \A k \in DOMAIN requests :
               requests[k].attempt = 2 =>
                   /\ k > 1
                   /\ requests[k - 1].attempt = 1
                   /\ requests[k].where = requests[k - 1].where
                   /\ requests[k].resultOffset = requests[k - 1].resultOffset
                   /\ requests[k].resultRecordCount = requests[k - 1].resultRecordCount
        /\ Cardinality({k \in DOMAIN requests : requests[k].attempt = 2}) = DecodeErrorsLogged
        /\ (FetchFailed /\ LastRequestRetried) =>
               IF SecondParseFailed
               THEN exc = "JSONDecodeError"
               ELSE exc = "DownloadError"

\* C16 witness: the second page failed to parse twice: three requests, the
\* last two at offset 1000, and the first failure raised.
C16_Witness ==
    /\ fn = "get_daily_ports"
    /\ FetchFailed
    /\ Len(requests) = 3
    /\ requests[2] = Params(fn, limit, 1)
    /\ requests[3] = Params(fn, limit, 2)
    /\ SecondParseFailed
    /\ exc = "JSONDecodeError"
    /\ PageSizesServed = <<limit>>

\* The fetches without a retry.
PlainFetches == {"get_ports", "get_chokepoints", "get_daily_chokepoints", "get_disruptions"}

\* C17: in get_ports, get_chokepoints, get_daily_chokepoints and
\* get_disruptions no request is issued twice (request k is the only one at
\* offset (k-1)*1000) and nothing is logged; a fetch that goes on or returns
\* has a page for every request; when a request fails, the failure reaches
\* the caller, that request is the last, and neither the rows nor the
\* features of the pages before it are returned.
C17_FailureNotRetried ==
    fn \in PlainFetches =>
        /\ \A k \in DOMAIN requests :
               requests[k].attempt = 1 /\ requests[k].resultOffset = (k - 1) * limit
        /\ logged = <<>>
        /\ pc \in {"loop", "returned", "done"} => Len(served) = Len(requests)
        /\ FetchFailed =>
               /\ exc \in DownloadFailures
               /\ Len(requests) = Len(served) + 1
               /\ rows = <<>>
               /\ geojson_features = <<>>
               /\ dataset = NotGenerated

\* C17 witness: get_disruptions received a full page and its second request
\* failed to parse: two requests, no rows.
C17_Witness ==
    /\ fn = "get_disruptions"
    /\ FetchFailed
    /\ exc = "JSONDecodeError"
    /\ PageSizesServed = <<limit>>
    /\ Len(requests) = 2
    /\ rows = <<>>

\* What a daily fetch returns for the pages `pages`: their rows, converted
\* and sorted.
DailyResultOf(pages) ==
    LET flat == Flatten(pages)
    IN  SortedByDateDesc([i \in DOMAIN flat |-> DailyRow(AttrsOf(flat[i]))])

\* C18: in get_daily_ports a page whose first parse failed and whose second
\* parse succeeded is a page like any other: the fetch does not fail on it,
\* it stops the loop exactly when it is short, the offset is 1000 times the
\* number of full pages received, and what the fetch returns is what the
\* pages received give, whether or not a page was requested twice.
C18_RetriedPageIsThePage ==
    fn = "get_daily_ports" =>
        /\ (LastRequestRetried /\ Len(served) = Len(PageRequests)) =>
               /\ effects = <<>> => exc \notin DownloadFailures
               /\ pc = "loop" <=> Len(served[Len(served)]) = limit
        /\ pc \in {"loop", "returned"} =>
               offset = limit * Cardinality({i \in DOMAIN served : Len(served[i]) = limit})
        /\ pc = "returned" => rows = DailyResultOf(served)

\* C18 witness: the first page was requested twice and was full, the second
\* held one record: three requests, 1001 rows returned, one decode error
\* logged.
C18_Witness ==
    /\ pc = "returned"
    /\ fn = "get_daily_ports"
    /\ requests = <<Params(fn, 0, 1), Params(fn, 0, 2), Params(fn, limit, 1)>>
    /\ PageSizesServed = <<limit, 1>>
    /\ Len(rows) = limit + 1
    /\ logged = LogDecodeError \o LogResponse

\* C19: once generate_disruptions_dataset has converted a row list, every
\* further call on that list raises TypeError (from json.dump when the
\* collection holds the converted rows, from the conversion of the first
\* row otherwise) and produces nothing: no dataset, no resource, the rows
\* as they were.
C19_SecondNormalisationFails ==
    [][(pc = "done" /\ fn = "get_disruptions" /\ rows # <<>>) =>
           /\ pc' = "raised"
           /\ exc' = "TypeError"
           /\ rows' = rows
           /\ dataset' = dataset
           /\ csv' = csv
           /\ \A i \in (DOMAIN effects' \ DOMAIN effects) :
                  effects'[i] # "generate_resource_from_iterable"]_vars

\* C19 witness: the second call was handed a copy of the collection as
\* fetched: json.dump wrote it and the conversion of the first row raised.
C19_Witness ==
    /\ pc = "raised"
    /\ fn = "get_disruptions"
    /\ dataset.returned = "Dataset"
    /\ exc = "TypeError"
    /\ effects = <<"json.dump", "get_date_range", "generate_resource_from_iterable",
                   "json.dump">>
    /\ geojson_file # <<>>
    /\ rows[1]["fromdate"].t = "datetime"
    /\ geojson_file[1]["properties"]["fromdate"].t = "int"

\* ------------------------------------------------------------ finite sources

\* The identifier of the record a row came from.
RecordOf(row) == IF "eventid" \in DOMAIN row THEN row["eventid"].v ELSE row["portid"].v

\* No request failed and none was issued again.
NeverFailed == \A k \in DOMAIN requests : requests[k].attempt = 1

\* C20: a fetch that returned from a source of N records, served in order
\* from the offset asked for and without a failure, received from each
\* request the records [offset, offset + 1000) of the N, issued exactly
\* N div 1000 + 1 requests and holds each of the records 1..N once; while
\* the loop runs, every request so far has brought 1000 records, so the
\* loop cannot go on past N div 1000 + 1 requests.
C20_FiniteSourceTerminates ==
    (source = "regular" /\ NeverFailed) =>
        /\ pc = "loop" => Len(rows) = limit * Len(requests)
        /\ Returned =>
               LET N == SumSeq(PageSizesServed)
               IN  /\ \A i \in DOMAIN served :
                          Len(served[i]) =
                              IF N - (i - 1) * limit >= limit THEN limit
                              ELSE N - (i - 1) * limit
                   /\ Len(requests) = (N \div limit) + 1
                   /\ Len(rows) = N
                   /\ {RecordOf(rows[i]) : i \in DOMAIN rows} = 1..N

\* C20 witness: a source of exactly 1000 records: the second request brought
\* no features, and the 1000 records were returned.
C20_Witness ==
    /\ pc = "returned"
    /\ source = "regular"
    /\ NeverFailed
    /\ PageSizesServed = <<limit, 0>>
    /\ Len(requests) = 2
    /\ Len(rows) = limit
    /\ {RecordOf(rows[i]) : i \in DOMAIN rows} = 1..limit

\* ------------------------------------------------ the staged GeoJSON file

\* generate_disruptions_dataset wrote the file once, on what get_disruptions
\* returned: it ran to its end or raised in the loop over the rows.
FirstGeneration ==
    fn = "get_disruptions" /\ pc \in {"done", "raised"} /\ effects # <<>> /\ Len(effects) <= 3

\* No value under fromdate or todate is a date-time.
RawDates(props) ==
    \A k \in {"fromdate", "todate"} \cap DOMAIN props : props[k].t # "datetime"

\* C21: generate_disruptions_dataset writes the GeoJSON file before it
\* converts any row: the file holds, feature by feature, the properties as
\* they were received, with epoch fromdate and todate and with ObjectId
\* where it was received; the rows being the properties of the collection
\* in memory, those properties are the rows after the call, and once the
\* call ran to its end they hold date-times under fromdate and todate, the
\* converted value of what the file holds, no ObjectId, and differ from the
\* properties in the file, feature by feature.
C21_FileWrittenBeforeConversion ==
    FirstGeneration =>
        LET received == Flatten(served)
        IN  /\ Len(geojson_file) = Len(received)
            /\ Len(geojson_features) = Len(received)
            /\ Len(rows) = Len(received)
            /\ \A i \in DOMAIN geojson_file :
                   /\ geojson_file[i]["properties"] = PropsOrEmpty(received[i])
                   /\ RawDates(geojson_file[i]["properties"])
                   /\ geojson_features[i]["properties"] = rows[i]
            /\ pc = "done" =>
                   \A i \in DOMAIN geojson_file :
                       LET written == geojson_file[i]["properties"]
                           props == geojson_features[i]["properties"]
                       IN  /\ IsDateTime(props, "fromdate")
                           /\ IsDateTime(props, "todate")
                           /\ props["fromdate"] = UtcOf(written["fromdate"])
                           /\ ~HasObjectId(props)
                           /\ props # written

\* C21 witness: the generator ran to its end on two or more disruptions
\* received with ObjectId, one of them with an epoch todate; the file holds
\* the epoch values and ObjectId, the collection in memory the date-times.
C21_Witness ==
    /\ FirstGeneration
    /\ pc = "done"
    /\ Len(geojson_file) >= 2
    /\ \E i \in DOMAIN geojson_file :
           /\ HasObjectId(geojson_file[i]["properties"])
           /\ "todate" \in DOMAIN geojson_file[i]["properties"]
           /\ geojson_file[i]["properties"]["todate"].t = "int"
           /\ geojson_features[i]["properties"]["todate"].t = "datetime"
    /\ geojson_features # geojson_file

====
